---- MODULE Spec2Model ----
(***************************************************************************)
(* Graph search of "Search Algorithms.ipynb": Problem / PathFinder, Node,  *)
(* breadth_first_graph_search, depth_first_graph_search,                   *)
(* uniform_cost_search and a_star_search.                                  *)
(*                                                                         *)
(* A Node object is a record in the arena `nodes`; a reference to a Node   *)
(* is its index in the arena and the reference None is 0.  One action is   *)
(* one iteration of a search function's while loop: the pop, the           *)
(* bookkeeping, the goal test and the whole for loop over the neighbours.  *)
(* `popped` lists the values the loop's local `node` has taken, in order.   *)
(* Numbers are integers: euclidean_distance is the integer part of the     *)
(* float the notebook computes.                                            *)
(***************************************************************************)
EXTENDS Integers, Sequences, FiniteSets, TLC

VARIABLES problem, alg, nodes, frontier, frontier_states, explored, popped, pc,
          result, iterations, expanded

vars == <<problem, alg, nodes, frontier, frontier_states, explored, popped, pc,
          result, iterations, expanded>>

\* ------------------------------------------------------------------ bounds
\* The small road maps: their number of states, the longest road, and the
\* largest coordinate of a location.
NumStates == 3
MaxWeight == 1
MaxCoord == 1

\* ------------------------------------------------------------------ values
\* The reference None (Node.parent of the root, the "not found" result).
None == 0
\* Node.action of the root (action=None).
NoAction == "None"

Algorithms == {"bfs", "dfs", "ucs", "astar"}

RECURSIVE SeqSum(_)
SeqSum(s) == IF s = <<>> THEN 0 ELSE Head(s) + SeqSum(Tail(s))

Reverse(s) == [i \in 1..Len(s) |-> s[Len(s) + 1 - i]]

\* math.sqrt, integer part.
Sqrt(x) == CHOOSE r \in 0..x : r * r <= x /\ (r + 1) * (r + 1) > x

\* ------------------------------------------------------------------ Problem / PathFinder
\* PathFinder.graph is a dict of dicts: graph[s] is the sequence of the
\* (neighbour, weight) items of graph[s] in the dict's iteration order.
Weight(graph, s1, s2) ==
    LET i == CHOOSE i \in 1..Len(graph[s1]) : graph[s1][i].to = s2
    IN graph[s1][i].w

\* PathFinder.actions: self.graph[state].keys()
actions(p, state) == [i \in 1..Len(p.graph[state]) |-> p.graph[state][i].to]

\* PathFinder.result: the action is the city reached
ResultOf(p, state, action) == action

\* Problem.goal_test
goal_test(p, state) == state = p.goal

\* Problem.path_cost, which PathFinder overrides: one per step.
path_cost_unit(p, c, state1, action, state2) == c + 1

\* PathFinder.path_cost
path_cost(p, c, state1, action, state2) == c + Weight(p.graph, state1, state2)

\* euclidean_distance(loc1, loc2)
euclidean_distance(loc1, loc2) ==
    Sqrt((loc1.x - loc2.x) * (loc1.x - loc2.x) + (loc1.y - loc2.y) * (loc1.y - loc2.y))

\* ------------------------------------------------------------------ Node
\* Node.__init__(state, action=None, parent=None, path_cost=0)
Node(state, action, parent, path_cost_) ==
    [state |-> state, cost |-> path_cost_, action |-> action, parent |-> parent]

\* A Node.__lt__ that compares the wrong way round.
NodeGt(ns, a, b) == ns[a].cost > ns[b].cost

\* Node.__lt__ on two references into the arena ns
NodeLt(ns, a, b) == ns[a].cost < ns[b].cost

\* Node.path: walk the parent links from the node, then reverse.
RECURSIVE PathBack(_, _)
PathBack(ns, n) == IF n = None THEN <<>> ELSE <<n>> \o PathBack(ns, ns[n].parent)

\* A Node.path that returns path_back without reversing it.
path_back(ns, n) == PathBack(ns, n)

path(ns, n) == Reverse(PathBack(ns, n))

\* ------------------------------------------------------------------ heapq
\* heapq._siftdown(heap, startpos, pos), positions counted from 0 as in Python
RECURSIVE siftdown(_, _, _, _, _)
siftdown(ns, heap, startpos, pos, newitem) ==
    IF pos > startpos
    THEN LET parentpos == (pos - 1) \div 2
             parent == heap[parentpos + 1]
         IN IF NodeLt(ns, newitem, parent)
            THEN siftdown(ns, [heap EXCEPT ![pos + 1] = parent], startpos, parentpos, newitem)
            ELSE [heap EXCEPT ![pos + 1] = newitem]
    ELSE [heap EXCEPT ![pos + 1] = newitem]

\* heapq._siftup(heap, pos): bubble the smaller child up to a leaf, then sift down
RECURSIVE siftup(_, _, _, _, _)
siftup(ns, heap, startpos, pos, newitem) ==
    LET endpos == Len(heap)
        childpos == 2 * pos + 1
        rightpos == childpos + 1
        smaller == IF rightpos < endpos /\ ~NodeLt(ns, heap[childpos + 1], heap[rightpos + 1])
                   THEN rightpos ELSE childpos
    IN IF childpos < endpos
       THEN siftup(ns, [heap EXCEPT ![pos + 1] = heap[smaller + 1]], startpos, smaller, newitem)
       ELSE siftdown(ns, [heap EXCEPT ![pos + 1] = newitem], startpos, pos, newitem)

\* heapq.heappush(heap, item)
heappush(ns, heap, item) ==
    LET appended == Append(heap, item)
    IN siftdown(ns, appended, 0, Len(appended) - 1, item)

\* heapq.heappop(heap): the popped item and the heap left
heappop(ns, heap) ==
    LET lastelt == heap[Len(heap)]
        rest == SubSeq(heap, 1, Len(heap) - 1)
    IN IF rest # <<>>
       THEN [node |-> rest[1], frontier |-> siftup(ns, [rest EXCEPT ![1] = lastelt], 0, 0, lastelt)]
       ELSE [node |-> lastelt, frontier |-> rest]

\* ------------------------------------------------------------------ the four frontiers
\* deque.pop() / list.pop(): the right end
PopRight(fr) == [node |-> fr[Len(fr)], frontier |-> SubSeq(fr, 1, Len(fr) - 1)]

\* node = frontier.pop()  /  node = heapq.heappop(frontier)
PopNode(a, ns, fr) ==
    IF a \in {"bfs", "dfs"} THEN PopRight(fr) ELSE heappop(ns, fr)

\* A breadth-first push at the end the pop takes from (append for appendleft).
bfs_push_right(fr, n) == Append(fr, n)

\* frontier.appendleft(neighbor_node) in breadth_first_graph_search
bfs_push(fr, n) == <<n>> \o fr

\* frontier.append(neighbor_node) in depth_first_graph_search
dfs_push(fr, n) == Append(fr, n)

PushNode(a, ns, fr, n) ==
    CASE a = "bfs" -> bfs_push(fr, n)
      [] a = "dfs" -> dfs_push(fr, n)
      [] OTHER -> heappush(ns, fr, n)

\* The element of frontier_states that stands for a frontier node: the state in
\* the breadth-first and depth-first searches, the tuple (state, cost) in
\* uniform_cost_search and a_star_search.
FrontierKey(a, state, cost) ==
    IF a \in {"bfs", "dfs"} THEN state ELSE <<state, cost>>

\* Python's == between a str and a tuple: never equal.
StrEqTuple(state, pair) == FALSE

\* A membership test that never finds the neighbour in frontier_states.
NeverInFrontierStates(a, neighbor, fs) == FALSE

\* `neighbor in frontier_states`: neighbor is a state.  In the two cost-ordered
\* searches the elements are (state, cost) tuples, each compared with the state.
InFrontierStates(a, neighbor, fs) ==
    IF a \in {"bfs", "dfs"}
    THEN neighbor \in fs
    ELSE \E pair \in fs : StrEqTuple(neighbor, pair)

\* A cost that starts from 0 instead of the cost of the node popped.
NeighborCostFromZero(a, p, node, neighbor) ==
    IF a = "astar"
    THEN path_cost(p, 0, node.state, NoAction, neighbor)
         + euclidean_distance(p.locations[neighbor], p.locations[p.goal])
    ELSE path_cost(p, 0, node.state, NoAction, neighbor)

\* The cost given to the neighbour's node.
NeighborCost(a, p, node, neighbor) ==
    IF a = "astar"
    THEN path_cost(p, node.cost, node.state, NoAction, neighbor)
         + euclidean_distance(p.locations[neighbor], p.locations[p.goal])
    ELSE path_cost(p, node.cost, node.state, NoAction, neighbor)

\* An AddNeighbor that links the new node to the node created last instead of
\* the node popped.
AddNeighborStaleParent(a, p, st, node, neighbor) ==
    LET cost == NeighborCost(a, p, st.nodes[node], neighbor)
        ns == Append(st.nodes, Node(neighbor, neighbor, Len(st.nodes), cost))
        neighbor_node == Len(ns)
    IN [st EXCEPT !.nodes = ns,
                  !.frontier = PushNode(a, ns, st.frontier, neighbor_node),
                  !.frontier_states = st.frontier_states \cup {FrontierKey(a, neighbor, cost)}]

\* The body of `if neighbor not in explored and neighbor not in frontier_states`
AddNeighbor(a, p, st, node, neighbor) ==
    LET cost == NeighborCost(a, p, st.nodes[node], neighbor)
        ns == Append(st.nodes, Node(neighbor, neighbor, node, cost))
        neighbor_node == Len(ns)
    IN [st EXCEPT !.nodes = ns,
                  !.frontier = PushNode(a, ns, st.frontier, neighbor_node),
                  !.frontier_states = st.frontier_states \cup {FrontierKey(a, neighbor, cost)}]

\* A for loop whose test leaves out `neighbor not in explored`.
RECURSIVE ForNeighborsExploredToo(_, _, _, _, _)
ForNeighborsExploredToo(a, p, st, node, nbrs) ==
    IF nbrs = <<>> THEN st
    ELSE LET neighbor == Head(nbrs)
             st1 == IF ~InFrontierStates(a, neighbor, st.frontier_states)
                    THEN AddNeighbor(a, p, st, node, neighbor)
                    ELSE st
         IN ForNeighborsExploredToo(a, p, st1, node, Tail(nbrs))

\* for neighbor in problem.actions(node.state): ...
RECURSIVE ForNeighbors(_, _, _, _, _)
ForNeighbors(a, p, st, node, nbrs) ==
    IF nbrs = <<>> THEN st
    ELSE LET neighbor == Head(nbrs)
             st1 == IF neighbor \notin st.explored
                       /\ ~InFrontierStates(a, neighbor, st.frontier_states)
                    THEN AddNeighbor(a, p, st, node, neighbor)
                    ELSE st
         IN ForNeighbors(a, p, st1, node, Tail(nbrs))

\* An Iteration that tests the goal after the for loop instead of before it.
IterationLateGoalTest(a, p, st) ==
    LET pop == PopNode(a, st.nodes, st.frontier)
        node == pop.node
        state == st.nodes[node].state
        key == FrontierKey(a, state, st.nodes[node].cost)
        st1 == [st EXCEPT !.frontier = pop.frontier,
                          !.popped = Append(st.popped, node),
                          !.explored = st.explored \cup {state}]
        st2 == [st1 EXCEPT !.frontier_states = st1.frontier_states \ {key}]
        st3 == ForNeighbors(a, p, st2, node, actions(p, state))
    IN IF key \notin st.frontier_states THEN [st1 EXCEPT !.pc = "KeyError"]
       ELSE IF goal_test(p, state) THEN [st3 EXCEPT !.pc = "returned", !.result = node]
       ELSE st3

\* One pass through the body of `while frontier:` (frontier not empty).
\* set.remove raises KeyError when the element is not in the set.
Iteration(a, p, st) ==
    LET pop == PopNode(a, st.nodes, st.frontier)
        node == pop.node
        state == st.nodes[node].state
        key == FrontierKey(a, state, st.nodes[node].cost)
        st1 == [st EXCEPT !.frontier = pop.frontier,
                          !.popped = Append(st.popped, node),
                          !.explored = st.explored \cup {state}]
        st2 == [st1 EXCEPT !.frontier_states = st1.frontier_states \ {key}]
    IN IF key \notin st.frontier_states THEN [st1 EXCEPT !.pc = "KeyError"]
       ELSE IF goal_test(p, state) THEN [st2 EXCEPT !.pc = "returned", !.result = node]
       ELSE ForNeighbors(a, p, st2, node, actions(p, state))

\* `while frontier:` found the frontier empty: return None
Exhausted(st) == [st EXCEPT !.pc = "returned", !.result = None]

\* The state of a search function right before the first test of `while frontier:`
Start(a, p) ==
    [nodes |-> <<Node(p.initial, NoAction, None, 0)>>,
     frontier |-> <<1>>,
     frontier_states |-> {FrontierKey(a, p.initial, 0)},
     explored |-> {},
     popped |-> <<>>,
     pc |-> "loop",
     result |-> None]

\* A whole call of a search function: the state it ends in.
RECURSIVE Run(_, _, _)
Run(a, p, st) ==
    IF st.pc # "loop" THEN st
    ELSE IF st.frontier = <<>> THEN Exhausted(st)
    ELSE Run(a, p, Iteration(a, p, st))

Search(a, p) == Run(a, p, Start(a, p))

\* ------------------------------------------------------------------ expand / child_node
\* The attributes a Node instance has: those __init__ sets and the methods.
NodeAttributes ==
    {"state", "cost", "action", "parent", "expand", "child_node", "path"}

\* Node.child_node(problem, action).  The arguments of Node(...) are evaluated
\* first, self.path_cost among them; they are passed by position, so the second
\* goes to `action` and the third to `parent`.
child_node(ns, p, self, action) ==
    LET next_state == ResultOf(p, ns[self].state, action)
    IN IF "path_cost" \notin NodeAttributes
       THEN [exception |-> "AttributeError", value |-> <<>>]
       ELSE [exception |-> "None",
             value |-> <<Node(next_state, self, action,
                              path_cost(p, ns[self].path_cost, ns[self].state,
                                        action, next_state))>>]

\* Node.expand(problem): the list of the children, or the first exception raised
RECURSIVE ExpandFrom(_, _, _, _)
ExpandFrom(ns, p, self, acts) ==
    IF acts = <<>> THEN [exception |-> "None", value |-> <<>>]
    ELSE LET child == child_node(ns, p, self, Head(acts))
             others == ExpandFrom(ns, p, self, Tail(acts))
         IN IF child.exception # "None" THEN child
            ELSE IF others.exception # "None" THEN others
            ELSE [exception |-> "None", value |-> child.value \o others.value]

expand(ns, p, self) == ExpandFrom(ns, p, self, actions(p, ns[self].state))

\* ------------------------------------------------------------------ the problems
StateNames == <<"A", "B", "C", "D", "E", "F">>

StateSeq == SubSeq(StateNames, 1, NumStates)

States == {StateSeq[i] : i \in 1..NumStates}

Roads == {e \in SUBSET States : Cardinality(e) = 2}

\* The graph dict of a road map: wt[{s, t}] is the length of the road between
\* s and t, 0 for no road; the dict of s lists its neighbours in name order.
GraphOf(wt) ==
    [s \in States |->
        LET Adjacent(t) == t # s /\ wt[{s, t}] > 0
            nb == SelectSeq(StateSeq, Adjacent)
        IN [i \in 1..Len(nb) |-> [to |-> nb[i], w |-> wt[{s, nb[i]}]]]]

Loc(x, y) == [x |-> x, y |-> y]

\* The locations tables tried for a goal.  Only a_star_search reads the table;
\* for it every table with the goal at the origin is tried, so that a state's x
\* is its heuristic value.
LocationTables(a, g) ==
    IF a = "astar"
    THEN {l \in [States -> {Loc(x, 0) : x \in 0..MaxCoord}] : l[g] = Loc(0, 0)}
    ELSE {[s \in States |-> Loc(0, 0)]}

\* problem is PathFinder("A", goal, graph) for some road map of States
SmallProblem(a, p) ==
    \E g \in States : \E wt \in [Roads -> 0..MaxWeight] : \E loc \in LocationTables(a, g) :
        p = [initial |-> StateSeq[1], goal |-> g, graph |-> GraphOf(wt), locations |-> loc]

Road(to, w) == [to |-> to, w |-> w]

romania_map ==
    [Arad |-> <<Road("Zerind", 75), Road("Sibiu", 140), Road("Timisoara", 118)>>,
     Zerind |-> <<Road("Arad", 75), Road("Oradea", 71)>>,
     Sibiu |-> <<Road("Arad", 140), Road("Fagaras", 99), Road("Oradea", 151), Road("Rimnicu", 80)>>,
     Timisoara |-> <<Road("Arad", 118), Road("Lugoj", 111)>>,
     Bucharest |-> <<Road("Urziceni", 85), Road("Pitesti", 101), Road("Giurgiu", 90), Road("Fagaras", 211)>>,
     Urziceni |-> <<Road("Bucharest", 85), Road("Hirsova", 98), Road("Vaslui", 142)>>,
     Pitesti |-> <<Road("Bucharest", 101), Road("Craiova", 138), Road("Rimnicu", 97)>>,
     Giurgiu |-> <<Road("Bucharest", 90)>>,
     Fagaras |-> <<Road("Bucharest", 211), Road("Sibiu", 99)>>,
     Craiova |-> <<Road("Drobeta", 120), Road("Rimnicu", 146), Road("Pitesti", 138)>>,
     Drobeta |-> <<Road("Craiova", 120), Road("Mehadia", 75)>>,
     Rimnicu |-> <<Road("Craiova", 146), Road("Pitesti", 97), Road("Sibiu", 80)>>,
     Mehadia |-> <<Road("Drobeta", 75), Road("Lugoj", 70)>>,
     Eforie |-> <<Road("Hirsova", 86)>>,
     Hirsova |-> <<Road("Eforie", 86), Road("Urziceni", 98)>>,
     Iasi |-> <<Road("Vaslui", 92), Road("Neamt", 87)>>,
     Vaslui |-> <<Road("Iasi", 92), Road("Urziceni", 142)>>,
     Neamt |-> <<Road("Iasi", 87)>>,
     Lugoj |-> <<Road("Timisoara", 111), Road("Mehadia", 70)>>,
     Oradea |-> <<Road("Zerind", 71), Road("Sibiu", 151)>>]

locations ==
    [Arad |-> Loc(91, 492), Bucharest |-> Loc(400, 327), Craiova |-> Loc(253, 288),
     Drobeta |-> Loc(165, 299), Eforie |-> Loc(562, 293), Fagaras |-> Loc(305, 449),
     Giurgiu |-> Loc(375, 270), Hirsova |-> Loc(534, 350), Iasi |-> Loc(473, 506),
     Lugoj |-> Loc(165, 379), Mehadia |-> Loc(168, 339), Neamt |-> Loc(406, 537),
     Oradea |-> Loc(131, 571), Pitesti |-> Loc(320, 368), Rimnicu |-> Loc(233, 410),
     Sibiu |-> Loc(207, 457), Timisoara |-> Loc(94, 410), Urziceni |-> Loc(456, 350),
     Vaslui |-> Loc(509, 444), Zerind |-> Loc(108, 531)]

\* Two routes of the same length lead to C: A-C and A-B-C.
tie_map ==
    [A |-> <<Road("B", 1), Road("C", 2)>>,
     B |-> <<Road("A", 1), Road("C", 1)>>,
     C |-> <<Road("A", 2), Road("B", 1), Road("D", 1)>>,
     D |-> <<Road("C", 1)>>]

\* The same, with D cut off.
tie_map_apart ==
    [A |-> <<Road("B", 1), Road("C", 2)>>,
     B |-> <<Road("A", 1), Road("C", 1)>>,
     C |-> <<Road("A", 2), Road("B", 1)>>,
     D |-> <<>>]

\* Two routes lead to D: A-B-D of length 2 and A-C-D of length 3.
fork_map ==
    [A |-> <<Road("B", 1), Road("C", 1)>>,
     B |-> <<Road("A", 1), Road("D", 1)>>,
     C |-> <<Road("A", 1), Road("D", 2)>>,
     D |-> <<Road("B", 1), Road("C", 2)>>]

\* B lies at distance 1 from D, which is the length of the road B-D; A and C
\* lie where D does.
fork_locations ==
    [A |-> Loc(0, 0), B |-> Loc(1, 0), C |-> Loc(0, 0), D |-> Loc(0, 0)]

\* Every state lies where D does.
same_locations ==
    [A |-> Loc(0, 0), B |-> Loc(0, 0), C |-> Loc(0, 0), D |-> Loc(0, 0)]

\* PathFinder("A", "D", graph) on the three maps above, with either table
ExampleProblems ==
    {[initial |-> "A", goal |-> "D", graph |-> g, locations |-> loc] :
        g \in {tie_map, tie_map_apart, fork_map},
        loc \in {fork_locations, same_locations}}

\* PathFinder("Arad", goal, romania_map)
RomaniaProblem(goal) ==
    [initial |-> "Arad", goal |-> goal, graph |-> romania_map, locations |-> locations]

\* The same road map with every road of length 1.
unit_map ==
    [s \in DOMAIN romania_map |->
        [i \in 1..Len(romania_map[s]) |-> Road(romania_map[s][i].to, 1)]]

RomaniaProblems ==
    {RomaniaProblem(g) : g \in DOMAIN romania_map}
    \cup {[RomaniaProblem(g) EXCEPT !.graph = unit_map] : g \in DOMAIN romania_map}

\* ------------------------------------------------------------------ the state machine
SearchState ==
    [nodes |-> nodes, frontier |-> frontier, frontier_states |-> frontier_states,
     explored |-> explored, popped |-> popped, pc |-> pc, result |-> result]

Becomes(st) ==
    /\ nodes' = st.nodes
    /\ frontier' = st.frontier
    /\ frontier_states' = st.frontier_states
    /\ explored' = st.explored
    /\ popped' = st.popped
    /\ pc' = st.pc
    /\ result' = st.result

NotExpanded == [called |-> FALSE, exception |-> "None", value |-> <<>>]

Init ==
    /\ alg \in Algorithms
    /\ \/ SmallProblem(alg, problem)
       \/ problem \in ExampleProblems \cup RomaniaProblems
    /\ nodes = Start(alg, problem).nodes
    /\ frontier = Start(alg, problem).frontier
    /\ frontier_states = Start(alg, problem).frontier_states
    /\ explored = Start(alg, problem).explored
    /\ popped = Start(alg, problem).popped
    /\ pc = "loop"
    /\ result = None
    /\ iterations = 0
    /\ expanded = NotExpanded

LoopBody(a) ==
    /\ alg = a
    /\ pc = "loop"
    /\ frontier # <<>>
    /\ Becomes(Iteration(a, problem, SearchState))
    /\ iterations' = iterations + 1
    /\ UNCHANGED <<problem, alg, expanded>>

\* one iteration of the while loop of breadth_first_graph_search
BreadthFirstIteration == LoopBody("bfs")

\* one iteration of the while loop of depth_first_graph_search
DepthFirstIteration == LoopBody("dfs")

\* one iteration of the while loop of uniform_cost_search
UniformCostIteration == LoopBody("ucs")

\* one iteration of the while loop of a_star_search
AStarIteration == LoopBody("astar")

\* the loop condition is false: return None
ReturnNone ==
    /\ pc = "loop"
    /\ frontier = <<>>
    /\ Becomes(Exhausted(SearchState))
    /\ UNCHANGED <<problem, alg, iterations, expanded>>

\* the caller expands the node a search returned: solution.expand(problem)
Expand ==
    /\ pc = "returned"
    /\ result # None
    /\ ~expanded.called
    /\ expanded' = [called |-> TRUE,
                    exception |-> expand(nodes, problem, result).exception,
                    value |-> expand(nodes, problem, result).value]
    /\ UNCHANGED <<problem, alg, nodes, frontier, frontier_states, explored, popped,
                   pc, result, iterations>>

Next ==
    \/ BreadthFirstIteration
    \/ DepthFirstIteration
    \/ UniformCostIteration
    \/ AStarIteration
    \/ ReturnNone
    \/ Expand

Spec == Init /\ [][Next]_vars

\* ------------------------------------------------------------------ reference notions
StatesOf(p) == DOMAIN p.graph

HasRoad(p, s, t) == \E i \in 1..Len(p.graph[s]) : p.graph[s][i].to = t

LongestRoad(p) ==
    LET lengths == {1} \cup UNION {{p.graph[s][i].w : i \in 1..Len(p.graph[s])} : s \in StatesOf(p)}
    IN CHOOSE x \in lengths : \A y \in lengths : y <= x

\* More than the weight of any path without a repeated state.
Unreached(p) == 1 + Cardinality(StatesOf(p)) * LongestRoad(p)

Min(S) == CHOOSE x \in S : \A y \in S : x <= y

\* A table of distances is a set of pairs <<state, distance>>.
At(d, s) == (CHOOSE pair \in d : pair[1] = s)[2]

\* Bellman-Ford: the least length of a path from src to each state, where a
\* road counts for its weight, or for 1 when hops is TRUE.
RECURSIVE Relax(_, _, _, _)
Relax(p, hops, d, k) ==
    IF k = 0 THEN d
    ELSE Relax(p, hops,
               {<<s, Min({At(d, s)} \cup
                         {At(d, t) + (IF hops THEN 1 ELSE Weight(p.graph, t, s)) :
                            t \in {u \in StatesOf(p) :
                                     HasRoad(p, u, s) /\ At(d, u) < Unreached(p)}})>> :
                  s \in StatesOf(p)},
               k - 1)

Distances(p, src, hops) ==
    Relax(p, hops, {<<s, IF s = src THEN 0 ELSE Unreached(p)>> : s \in StatesOf(p)},
          Cardinality(StatesOf(p)))

Reachable(p) == At(Distances(p, p.initial, TRUE), p.goal) < Unreached(p)

\* The least total edge weight of a path from initial to goal.
MinCost(p) == At(Distances(p, p.initial, FALSE), p.goal)

\* The least number of edges of a path from initial to goal.
MinEdges(p) == At(Distances(p, p.initial, TRUE), p.goal)

PathStates(ns, n) == [i \in 1..Len(path(ns, n)) |-> ns[path(ns, n)[i]].state]

\* The sum of the graph weights along node.path().
PathWeight(p, ns, n) ==
    LET states == PathStates(ns, n)
    IN SeqSum([i \in 1..(Len(states) - 1) |-> Weight(p.graph, states[i], states[i + 1])])

\* The heuristic a_star_search uses for a state.
Heuristic(p, s) == euclidean_distance(p.locations[s], p.locations[p.goal])

Admissible(p) ==
    \A s \in StatesOf(p) : Heuristic(p, s) <= At(Distances(p, s, FALSE), p.goal)

Consistent(p) ==
    \A s \in StatesOf(p) : \A i \in 1..Len(p.graph[s]) :
        Heuristic(p, s) <= p.graph[s][i].w + Heuristic(p, p.graph[s][i].to)

Finished == pc # "loop"

ReturnedNode == pc = "returned" /\ result # None

\* ------------------------------------------------------------------ claims
\* C1: on a weighted graph where the goal is reachable, uniform_cost_search
\* returns a node whose cost is the least total edge weight of a path from
\* initial to goal, hence at most the cost of the node that
\* breadth_first_graph_search or depth_first_graph_search returns.
C1_UniformCostReturnsCheapest ==
    (alg = "ucs" /\ Finished /\ Reachable(problem)) =>
        /\ ReturnedNode
        /\ nodes[result].cost = MinCost(problem)
        /\ \A a \in {"bfs", "dfs"} :
              LET other == Search(a, problem)
              IN (other.pc = "returned" /\ other.result # None) =>
                    nodes[result].cost <= other.nodes[other.result].cost

\* C2: with a non-negative, admissible and consistent heuristic the path
\* a_star_search returns has the same total edge weight as the path
\* uniform_cost_search returns on the same problem.
C2_AStarPathWeighsAsUniformCost ==
    (alg = "astar" /\ ReturnedNode /\ Consistent(problem) /\ Admissible(problem)) =>
        LET ucs == Search("ucs", problem)
        IN (ucs.pc = "returned" /\ ucs.result # None) =>
              PathWeight(problem, nodes, result) = PathWeight(problem, ucs.nodes, ucs.result)

\* C4: when the goal cannot be reached from the initial state, each of the four
\* searches ends by returning None; none ends in an error.
C4_UnreachableGoalReturnsNone ==
    (Finished /\ ~Reachable(problem)) => (pc = "returned" /\ result = None)

\* Every road of the graph has the same length.
UniformStepCost(p) ==
    \A s, t \in StatesOf(p) : \A i \in 1..Len(p.graph[s]) : \A j \in 1..Len(p.graph[t]) :
        p.graph[s][i].w = p.graph[t][j].w

\* C3: on a graph whose edges all have the same step cost and whose goal is
\* reachable, the path breadth_first_graph_search returns has the least number
\* of edges of all paths from the initial state to the goal.
C3_BreadthFirstFewestEdges ==
    (alg = "bfs" /\ Finished /\ UniformStepCost(problem) /\ Reachable(problem)) =>
        /\ ReturnedNode
        /\ Len(path(nodes, result)) - 1 = MinEdges(problem)

\* C3 witness: a breadth-first search on a uniform-cost graph has returned a
\* route of three edges where the depth-first search returns a longer one.
C3_Witness ==
    /\ alg = "bfs" /\ ReturnedNode /\ UniformStepCost(problem)
    /\ Len(path(nodes, result)) = 4
    /\ LET dfs == Search("dfs", problem)
       IN dfs.result # None /\ Len(path(dfs.nodes, dfs.result)) > 4

\* node.path() is a route of the graph from problem.initial to a goal state.
ValidRoute(p, ns, n) ==
    LET route == path(ns, n)
    IN /\ route # <<>>
       /\ ns[route[1]].state = p.initial
       /\ goal_test(p, ns[route[Len(route)]].state)
       /\ \A i \in 2..Len(route) :
             /\ ns[route[i]].parent = route[i - 1]
             /\ \E j \in 1..Len(actions(p, ns[route[i - 1]].state)) :
                   actions(p, ns[route[i - 1]].state)[j] = ns[route[i]].state

\* C5: whenever depth_first_graph_search returns a node, node.path() starts at
\* problem.initial, ends in a state that satisfies goal_test, and each node of
\* it is a child of the one before, over an edge of the graph.
C5_DepthFirstRouteValid ==
    (alg = "dfs" /\ ReturnedNode) => ValidRoute(problem, nodes, result)

\* C5 witness: a depth-first search has returned a route of at least two edges.
C5_Witness ==
    alg = "dfs" /\ ReturnedNode /\ Len(path(nodes, result)) >= 3

\* C6: when problem.initial is the goal, each search returns the root on its
\* first iteration without creating a child: the node returned has parent None
\* and cost 0, and its path() has one element.
C6_InitialIsGoal ==
    (problem.initial = problem.goal) =>
        IF pc = "loop" THEN iterations = 0
        ELSE /\ pc = "returned"
             /\ iterations = 1
             /\ result # None
             /\ nodes[result].state = problem.initial
             /\ nodes[result].parent = None
             /\ nodes[result].cost = 0
             /\ Len(nodes) = 1
             /\ Len(path(nodes, result)) = 1

\* C6 witness: a search whose initial state is the goal, with roads leaving it,
\* has returned.
C6_Witness ==
    /\ problem.initial = problem.goal
    /\ Len(problem.graph[problem.initial]) > 0
    /\ ReturnedNode

\* C7: n.child_node(problem, a) returns a new Node with state
\* problem.result(n.state, a), parent n, action a and cost
\* problem.path_cost(n.cost, n.state, a, that state); n.expand(problem) returns
\* one such child per action of problem.actions(n.state), in order.
C7_ExpandBuildsChildren ==
    expanded.called =>
        LET n == result
            acts == actions(problem, nodes[n].state)
        IN /\ expanded.exception = "None"
           /\ Len(expanded.value) = Len(acts)
           /\ \A i \in 1..Len(acts) :
                 LET next_state == ResultOf(problem, nodes[n].state, acts[i])
                 IN expanded.value[i] =
                       [state |-> next_state, parent |-> n, action |-> acts[i],
                        cost |-> path_cost(problem, nodes[n].cost, nodes[n].state,
                                           acts[i], next_state)]

\* C8: for every node a search creates, path() is the chain of parent links,
\* root first: it starts at the root (parent None, state problem.initial), ends
\* at the node, and every later element has the one before it as parent.
C8_PathIsParentChain ==
    \A n \in 1..Len(nodes) :
        LET route == path(nodes, n)
        IN /\ route # <<>>
           /\ nodes[route[1]].parent = None
           /\ nodes[route[1]].state = problem.initial
           /\ route[Len(route)] = n
           /\ \A i \in 2..Len(route) : nodes[route[i]].parent = route[i - 1]

\* C8 witness: some node lies three parent links below the root.
C8_Witness ==
    \E n \in 1..Len(nodes) : Len(path(nodes, n)) >= 4

\* C9: on the Romania road map uniform_cost_search from Arad to Bucharest
\* returns the route Arad, Sibiu, Rimnicu, Pitesti, Bucharest, of cost 418.
C9_RomaniaUniformCost ==
    (alg = "ucs" /\ problem = RomaniaProblem("Bucharest") /\ Finished) =>
        /\ ReturnedNode
        /\ PathStates(nodes, result) = <<"Arad", "Sibiu", "Rimnicu", "Pitesti", "Bucharest">>
        /\ nodes[result].cost = 418

\* C9 witness: the uniform-cost search from Arad to Bucharest has ended.
C9_Witness ==
    alg = "ucs" /\ problem = RomaniaProblem("Bucharest") /\ Finished

\* C10: in the breadth-first and depth-first searches, whenever the loop
\* condition is evaluated frontier_states is the set of the states of the
\* frontier's nodes, no two frontier nodes have the same state, and
\* frontier_states and explored are disjoint.
C10_FrontierStatesMirrorFrontier ==
    (alg \in {"bfs", "dfs"} /\ pc = "loop") =>
        /\ frontier_states = {nodes[frontier[i]].state : i \in 1..Len(frontier)}
        /\ \A i, j \in 1..Len(frontier) :
              nodes[frontier[i]].state = nodes[frontier[j]].state => i = j
        /\ frontier_states \cap explored = {}

\* C10 witness: a loop head with several frontier nodes and several explored
\* states, after a neighbour was skipped because its state was in the frontier.
C10_Witness ==
    /\ alg \in {"bfs", "dfs"} /\ pc = "loop"
    /\ Len(frontier) >= 2
    /\ Cardinality(explored) >= 2
    /\ \E i \in 1..Len(frontier) :
          \E s \in explored \ {nodes[nodes[frontier[i]].parent].state} :
              HasRoad(problem, s, nodes[frontier[i]].state)

\* C11: in uniform_cost_search a neighbour is not pushed when its (state, cost)
\* pair is already in frontier_states, so the frontier never holds two nodes
\* with the same state and the same cost.
C11_NoEqualPairsInFrontier ==
    (alg = "ucs" /\ pc = "loop") =>
        \A i, j \in 1..Len(frontier) :
            (/\ nodes[frontier[i]].state = nodes[frontier[j]].state
             /\ nodes[frontier[i]].cost = nodes[frontier[j]].cost) => i = j

\* C12: in a_star_search the cost field of every node pushed is the sum of the
\* edge weights along its path from the root plus the heuristic value of its own
\* state, at every depth.
C12_AStarPriorityIsPathCostPlusHeuristic ==
    alg = "astar" =>
        \A n \in 2..Len(nodes) :
            nodes[n].cost = PathWeight(problem, nodes, n) + Heuristic(problem, nodes[n].state)

\* C13: uniform_cost_search pops nodes in non-decreasing order of cost: the
\* node popped costs no more than any node still in the frontier and no less
\* than any node popped before it.
C13_UniformCostPopsInOrder ==
    alg = "ucs" =>
        /\ \A i, j \in 1..Len(popped) :
              i < j => nodes[popped[i]].cost <= nodes[popped[j]].cost
        /\ \A i \in 1..Len(frontier) :
              popped # <<>> => nodes[popped[Len(popped)]].cost <= nodes[frontier[i]].cost

\* C13 witness: three nodes of rising cost were popped and the frontier holds
\* nodes of different costs.
C13_Witness ==
    /\ alg = "ucs" /\ Len(popped) >= 3
    /\ nodes[popped[1]].cost < nodes[popped[2]].cost
    /\ nodes[popped[2]].cost < nodes[popped[3]].cost
    /\ \E i, j \in 1..Len(frontier) : nodes[frontier[i]].cost < nodes[frontier[j]].cost

\* C14: in the breadth-first, depth-first and uniform-cost searches every node
\* but the root costs what its parent costs plus the weight of the edge from the
\* parent's state to its own, so a returned node costs the total edge weight
\* along its path().
C14_CostIsPathWeight ==
    alg \in {"bfs", "dfs", "ucs"} =>
        /\ \A n \in 2..Len(nodes) :
              nodes[n].cost = nodes[nodes[n].parent].cost
                              + Weight(problem.graph, nodes[nodes[n].parent].state, nodes[n].state)
        /\ ReturnedNode => nodes[result].cost = PathWeight(problem, nodes, result)

\* C14 witness: a node was returned over at least two roads that are not all
\* of length 1.
C14_Witness ==
    /\ alg \in {"bfs", "dfs", "ucs"} /\ ReturnedNode
    /\ Len(path(nodes, result)) >= 3
    /\ nodes[result].cost > Len(path(nodes, result)) - 1

\* C15: in uniform_cost_search and a_star_search the cost field never decreases
\* from a node to its child: node.cost >= node.parent.cost for every node.
C15_CostNeverDecreases ==
    alg \in {"ucs", "astar"} =>
        \A n \in 2..Len(nodes) : nodes[n].cost >= nodes[nodes[n].parent].cost

\* C15 witness: a_star_search created a node two links below the root whose
\* state has a smaller heuristic value than its parent's state.
C15_Witness ==
    /\ alg = "astar"
    /\ \E n \in 2..Len(nodes) :
          /\ nodes[n].parent # 1
          /\ Heuristic(problem, nodes[n].state)
                < Heuristic(problem, nodes[nodes[n].parent].state)

\* C16: each of the four searches terminates either by returning a node whose
\* state satisfies goal_test or by returning None once the frontier is empty:
\* a search that has left its loop has done one of the two.
C16_EverySearchReturns ==
    Finished =>
        /\ pc = "returned"
        /\ result # None => goal_test(problem, nodes[result].state)
        /\ result = None => frontier = <<>>

\* C17: in uniform_cost_search and a_star_search the pair (node.state,
\* node.cost) of a popped node is in frontier_states, so the removal after the
\* pop never fails; at every loop head frontier_states holds the pair of every
\* node in the heap.
C17_PoppedPairIsInFrontierStates ==
    alg \in {"ucs", "astar"} =>
        /\ pc # "KeyError"
        /\ pc = "loop" =>
              \A i \in 1..Len(frontier) :
                  <<nodes[frontier[i]].state, nodes[frontier[i]].cost>> \in frontier_states

\* The states a path from the initial state leads to.
ReachableStates(p) ==
    LET d == Distances(p, p.initial, TRUE)
    IN {s \in StatesOf(p) : At(d, s) < Unreached(p)}

\* C18: in the breadth-first and depth-first searches no state is put into the
\* frontier twice and none is popped twice, so the number of loop iterations
\* never exceeds the number of states reachable from the initial state.
C18_EachStateOnceInFrontier ==
    alg \in {"bfs", "dfs"} =>
        /\ \A n, m \in 1..Len(nodes) : nodes[n].state = nodes[m].state => n = m
        /\ \A i, j \in 1..Len(popped) :
              nodes[popped[i]].state = nodes[popped[j]].state => i = j
        /\ iterations <= Cardinality(ReachableStates(problem))

\* C18 witness: a search has popped every reachable state, four at least, and
\* some state was reached over two roads.
C18_Witness ==
    /\ alg \in {"bfs", "dfs"} /\ Finished
    /\ iterations = Cardinality(ReachableStates(problem))
    /\ iterations >= 4
    /\ \E n \in 2..Len(nodes) : \E m \in 1..Len(nodes) :
          m # nodes[n].parent /\ HasRoad(problem, nodes[m].state, nodes[n].state)

\* C19: the states along path() are pairwise distinct for every node a search
\* creates: no child is made for a state among its own ancestors.
C19_PathsAreSimple ==
    \A n \in 1..Len(nodes) :
        LET states == PathStates(nodes, n)
        IN \A i, j \in 1..Len(states) : states[i] = states[j] => i = j

\* C19 witness: uniform_cost_search holds two nodes of one state, one of them
\* at least two links below the root.
C19_Witness ==
    /\ alg = "ucs"
    /\ \E n, m \in 1..Len(nodes) :
          /\ n # m
          /\ nodes[n].state = nodes[m].state
          /\ Len(path(nodes, n)) >= 3

\* The heuristic is 0 for every state.
ZeroHeuristic(p) == \A s \in StatesOf(p) : Heuristic(p, s) = 0

\* The state of a search function after k passes through its loop.
RECURSIVE RunFor(_, _, _, _)
RunFor(a, p, st, k) ==
    IF k = 0 \/ st.pc # "loop" \/ st.frontier = <<>> THEN st
    ELSE RunFor(a, p, Iteration(a, p, st), k - 1)

\* The (state, cost) pairs of a sequence of nodes.
PairsOf(ns, refs) == [i \in 1..Len(refs) |-> <<ns[refs[i]].state, ns[refs[i]].cost>>]

\* C20: with a heuristic that is 0 everywhere a_star_search and
\* uniform_cost_search run in lock step: after every iteration their frontiers
\* hold the same (state, cost) pairs, their explored sets are equal and they
\* have popped the same (state, cost) pairs in the same order; and they return
\* the same path or both return None.
C20_AStarZeroHeuristicIsUniformCost ==
    (alg = "astar" /\ ZeroHeuristic(problem)) =>
        LET ucs == IF Finished THEN Search("ucs", problem)
                   ELSE RunFor("ucs", problem, Start("ucs", problem), iterations)
        IN /\ PairsOf(nodes, frontier) = PairsOf(ucs.nodes, ucs.frontier)
           /\ explored = ucs.explored
           /\ PairsOf(nodes, popped) = PairsOf(ucs.nodes, ucs.popped)
           /\ Finished =>
                 /\ pc = "returned" /\ ucs.pc = "returned"
                 /\ (result = None) = (ucs.result = None)
                 /\ result # None =>
                       PathStates(nodes, result) = PathStates(ucs.nodes, ucs.result)

====
